---------------------------- MODULE Spec2Model ----------------------------
(***************************************************************************)
(* A model of bufferedlinear_tools: chunk addressing (chunk.rs), the       *)
(* Linear v2 decoder and the Blinear v2 codec (region_file.rs), and the    *)
(* directory conversion pipeline (main.rs).                                *)
(*                                                                         *)
(* Representation of machine integers.  TLC's integers are 32 bits wide,   *)
(* so an i32 is a TLC integer in -2^31 .. 2^31-1 and an i64 is the pair    *)
(* [hi, lo] of its two 32-bit words, each read as an i32 (two's            *)
(* complement).  A byte is an integer in 0..255 and a buffer a sequence    *)
(* of bytes.  A panic (an out-of-range slice, an unwrap of Err, todo!())   *)
(* is the result [kind |-> "panic"].                                       *)
(***************************************************************************)
EXTENDS Integers, Sequences, FiniteSets, TLC

VARIABLES
    call,      \* harness: the operation last applied, with its arguments
    ret,       \* harness: what that operation returned
    mode,      \* pipeline: cli.mode
    level,     \* pipeline: cli.compression_level
    files,     \* pipeline: the scanned input files, file id -> contents
    status,    \* pipeline: file id -> where its for_each closure stands
    ext,       \* pipeline: file id -> the output extension computed for it
    outputs,   \* pipeline: file id -> bytes written to its output path
    stderr,    \* pipeline: the "Failed to convert file" lines, as records
    stdout,    \* pipeline: the "Done conversation" lines, as file ids
    batch      \* pipeline: the state of do_converse_all

harness == <<call, ret>>
pipeline == <<mode, level, files, status, ext, outputs, stderr, stdout, batch>>
vars == <<call, ret, mode, level, files, status, ext, outputs, stderr, stdout, batch>>

-----------------------------------------------------------------------------
(* 32-bit and 64-bit words *)

\* a & b on two's-complement integers (\div floors, % is non-negative)
RECURSIVE And32(_, _)
And32(a, b) ==
    IF a = 0 \/ b = 0 THEN 0
    ELSE IF a = -1 THEN b
    ELSE IF b = -1 THEN a
    ELSE (a % 2) * (b % 2) + 2 * And32(a \div 2, b \div 2)

\* a | b on two's-complement integers
RECURSIVE Or32(_, _)
Or32(a, b) ==
    IF a = 0 THEN b
    ELSE IF b = 0 THEN a
    ELSE IF a = -1 \/ b = -1 THEN -1
    ELSE (IF a % 2 = 1 \/ b % 2 = 1 THEN 1 ELSE 0) + 2 * Or32(a \div 2, b \div 2)

\* `v as i64` for an i32 v: sign extension
AsI64(v) == [hi |-> IF v < 0 THEN -1 ELSE 0, lo |-> v]

\* `p << 32` on an i64
Shl32(p) == [hi |-> p.lo, lo |-> 0]

And64(p, q) == [hi |-> And32(p.hi, q.hi), lo |-> And32(p.lo, q.lo)]

Or64(p, q) == [hi |-> Or32(p.hi, q.hi), lo |-> Or32(p.lo, q.lo)]

\* the literal 0xFFFFFFFF as an i64
MASK_LOW32 == [hi |-> 0, lo |-> -1]

-----------------------------------------------------------------------------
(* Big-endian integers in buffers *)

\* i32::to_be_bytes
I32ToBe(n) ==
    LET m == IF n < 0 THEN (n + 2147483647) + 1 ELSE n
        top == (m \div 16777216) + (IF n < 0 THEN 128 ELSE 0)
    IN  <<top, (m \div 65536) % 256, (m \div 256) % 256, m % 256>>

\* i32::from_be_bytes of a 4-byte buffer
I32FromBe(b) ==
    (IF b[1] >= 128 THEN b[1] - 256 ELSE b[1]) * 16777216
        + b[2] * 65536 + b[3] * 256 + b[4]

\* i64::to_be_bytes
I64ToBe(p) == I32ToBe(p.hi) \o I32ToBe(p.lo)

\* i64::from_be_bytes of an 8-byte buffer
I64FromBe(b) == [hi |-> I32FromBe(SubSeq(b, 1, 4)), lo |-> I32FromBe(SubSeq(b, 5, 8))]

\* &bytes[from..to] on a Rust slice (0-based, `to` exclusive); the caller
\* has checked InRange
Slice(bytes, from, to) == SubSeq(bytes, from + 1, to)

\* whether &bytes[from..to] is a valid range (otherwise the slice panics)
InRange(bytes, from, to) == 0 <= from /\ from <= to /\ to <= Len(bytes)

-----------------------------------------------------------------------------
(* nbt: the tag tree codec.  A Tag is opaque: it is the value that          *)
(* serialises to the bytes it was parsed from.                              *)

parse_tag(data) == [nbt |-> data]

Tag_to_bytes(tag) == tag.nbt

-----------------------------------------------------------------------------
(* chunk.rs *)

new_from_block_pos(x, z, timestamp, data) ==
    [position  |-> Or64(Shl32(AsI64(x)), And64(AsI64(z), MASK_LOW32)),
     timestamp |-> timestamp,
     data      |-> data]

\* Chunk::x: (self.position as u32) as i32, the low word
Chunk_x(chunk) == chunk.position.lo

\* Chunk::z: ((self.position as u64 >> 32) as u32) as i32, the high word
Chunk_z(chunk) == chunk.position.hi

\* `as` binds tighter than `+`, and `+` tighter than `<<`:
\* ((x & 31) as usize + ((z & 31) as usize)) << 5
position_to_sector_index(chunk) ==
    (And32(Chunk_x(chunk), 31) + And32(Chunk_z(chunk), 31)) * 32

from_sector(sector_index, timestamp, data) ==
    LET x == And32(sector_index, 31)
        z == And32(sector_index \div 32, 31)
    IN  new_from_block_pos(x, z, timestamp, parse_tag(data))

to_raw_bytes(chunk) == Tag_to_bytes(chunk.data)

-----------------------------------------------------------------------------
(* The zstd and twox_hash crates, as far as the codecs depend on them: a     *)
(* frame is the zstd magic number followed by the content; decoding an      *)
(* input that is not a sequence of frames fails (an empty input holds no    *)
(* frame and decodes to nothing).                                           *)

ZSTD_MAGIC == <<40, 181, 47, 253>>

zstd_encode_all(data, compression_level) == ZSTD_MAGIC \o data

zstd_decode_all(bytes) ==
    IF Len(bytes) = 0 THEN [ok |-> TRUE, data |-> <<>>]
    ELSE IF Len(bytes) >= 4 /\ SubSeq(bytes, 1, 4) = ZSTD_MAGIC
         THEN [ok |-> TRUE, data |-> SubSeq(bytes, 5, Len(bytes))]
         ELSE [ok |-> FALSE, data |-> <<>>]

\* XxHash32::with_seed(seed), write(data), finish() as i32: a 32-bit digest
RECURSIVE xxhash32(_, _)
xxhash32(seed, data) ==
    IF data = <<>> THEN seed
    ELSE xxhash32((seed * 31 + Head(data)) % 65521, Tail(data))

-----------------------------------------------------------------------------
(* region_file.rs: results of the decoders *)

\* the region field of a result that carries no Region
NoRegion == [chunks |-> <<>>, timestamp |-> [hi |-> 0, lo |-> 0]]

\* Ok(Self { chunks, timestamp }); zstd_calls counts the zstd::decode_all
\* calls made on the way
Ok(chunks, timestamp, zstd_calls) ==
    [kind |-> "Ok", err |-> "none", zstd_calls |-> zstd_calls,
     region |-> [chunks |-> chunks, timestamp |-> timestamp]]

\* Err(ParseError::..)
Err(err, zstd_calls) ==
    [kind |-> "Err", err |-> err, zstd_calls |-> zstd_calls, region |-> NoRegion]

\* the thread unwinds: no value is returned
Panicked(zstd_calls) ==
    [kind |-> "panic", err |-> "none", zstd_calls |-> zstd_calls, region |-> NoRegion]

-----------------------------------------------------------------------------
(* region_file.rs: Region::to_bytes_blinear *)

\* -0x200812250269i64.to_be_bytes()
BLINEAR_FILE_HEAD == <<255, 255, 223, 247, 237, 218, 253, 151>>

BLINEAR_VERSION == 2

HASH_SEED == 1825

\* the inner `for chunk in &self.chunks` scan: the first chunk whose sector
\* index is `index`, as a sequence of zero or one chunk
target_chunk(chunks, index) ==
    LET hits == {i \in 1..Len(chunks) : position_to_sector_index(chunks[i]) = index}
    IN  IF hits = {} THEN <<>>
        ELSE <<chunks[CHOOSE i \in hits : \A j \in hits : i <= j]>>

\* one iteration of `for index in 0..1024`: what it appends to region_data
slot_bytes(chunks, index) ==
    LET target == target_chunk(chunks, index) IN
    IF target = <<>> THEN I32ToBe(0)
    ELSE LET chunk_data == to_raw_bytes(target[1])
             local_temp_buffer ==
                 I32ToBe(Len(chunk_data))
                     \o I64ToBe(target[1].timestamp)
                     \o I32ToBe(xxhash32(HASH_SEED, chunk_data))
                     \o chunk_data
         IN  I32ToBe(Len(local_temp_buffer)) \o local_temp_buffer

\* region_data after the iterations lo .. hi-1 of `for index in 0..1024`,
\* (the range is halved to keep the evaluation shallow; appending is
\* associative, so the bytes are those of the loop)
RECURSIVE region_data(_, _, _)
region_data(chunks, lo, hi) ==
    IF hi <= lo THEN <<>>
    ELSE IF hi - lo = 1 THEN slot_bytes(chunks, lo)
    ELSE LET mid == (lo + hi) \div 2
         IN  region_data(chunks, lo, mid) \o region_data(chunks, mid, hi)

to_bytes_blinear(region, timestamp, compression_level) ==
    LET file_header ==
            BLINEAR_FILE_HEAD \o <<BLINEAR_VERSION>> \o I64ToBe(timestamp)
                \o <<compression_level>>
    IN  file_header \o zstd_encode_all(region_data(region.chunks, 0, 1024), compression_level)

-----------------------------------------------------------------------------
(* region_file.rs: Region::from_bytes_blinear *)

\* one iteration of `for sector_index in 0..1024` on the loop state
\* st = [ptr, chunks, panicked]
blinear_sector(data, sector_index, st) ==
    IF st.panicked THEN st
    ELSE IF ~InRange(data, st.ptr, st.ptr + 4) THEN [st EXCEPT !.panicked = TRUE]
    ELSE
    LET len_i32 == I32FromBe(Slice(data, st.ptr, st.ptr + 4))
        ptr == st.ptr + 4
    IN  \* `as usize` of a negative i32 is at least 2^64 - 2^31, so the test
        \* `sector_len <= 0` is false and the range ptr..ptr+sector_len is
        \* out of bounds (or overflows): the slice panics
        IF len_i32 < 0 THEN [st EXCEPT !.panicked = TRUE]
        ELSE IF len_i32 <= 0 THEN [st EXCEPT !.ptr = ptr]
        ELSE IF ~InRange(data, ptr, ptr + len_i32) THEN [st EXCEPT !.panicked = TRUE]
        ELSE
        LET section == Slice(data, ptr, ptr + len_i32) IN
        IF ~InRange(section, 12, 16) THEN [st EXCEPT !.panicked = TRUE]
        ELSE
        LET timestamp_of_chunk == I64FromBe(Slice(section, 4, 12))
            data_of_chunk == Slice(section, 16, Len(section))
        IN  [ptr      |-> ptr + len_i32,
             chunks   |-> Append(st.chunks, from_sector(sector_index, timestamp_of_chunk, data_of_chunk)),
             panicked |-> FALSE]

\* the loop state after the iterations lo .. hi-1 (the range is halved to
\* keep the evaluation shallow; a panic ends the loop)
RECURSIVE blinear_sectors(_, _, _, _)
blinear_sectors(data, lo, hi, st) ==
    IF hi <= lo THEN st
    ELSE IF hi - lo = 1 THEN blinear_sector(data, lo, st)
    ELSE LET mid == (lo + hi) \div 2
             left == blinear_sectors(data, lo, mid, st)
         IN  IF left.panicked THEN left ELSE blinear_sectors(data, mid, hi, left)

\* blinear_header without the comparison of the version byte
blinear_header_version_unchecked(bytes) ==
    IF ~InRange(bytes, 0, 8) THEN "panic"
    ELSE IF ~InRange(bytes, 8, 9) THEN "panic"
    ELSE IF Slice(bytes, 0, 8) # BLINEAR_FILE_HEAD THEN "HeaderError"
    ELSE "ok"

\* the checks of the file head and the version: "ok", the ParseError they
\* return, or "panic" (bytes[0..8] and bytes[8..9] are both sliced first)
blinear_header(bytes) ==
    IF ~InRange(bytes, 0, 8) THEN "panic"
    ELSE IF ~InRange(bytes, 8, 9) THEN "panic"
    ELSE IF Slice(bytes, 0, 8) # BLINEAR_FILE_HEAD THEN "HeaderError"
    ELSE IF bytes[9] # BLINEAR_VERSION THEN "VersionError"
    ELSE "ok"

from_bytes_blinear(bytes) ==
    LET checked == blinear_header(bytes) IN
    IF checked = "panic" THEN Panicked(0)
    ELSE IF checked # "ok" THEN Err(checked, 0)
    ELSE IF ~InRange(bytes, 9, 17) THEN Panicked(0)
    ELSE IF ~InRange(bytes, 17, 18) THEN Panicked(0)
    ELSE
    LET timestamp_of_master_file == I64FromBe(Slice(bytes, 9, 17))
        decoded == zstd_decode_all(Slice(bytes, 18, Len(bytes)))
    IN  IF ~decoded.ok THEN Err("ReadError", 1)
        ELSE LET st == blinear_sectors(decoded.data, 0, 1024,
                                       [ptr |-> 0, chunks |-> <<>>, panicked |-> FALSE])
             IN  IF st.panicked THEN Panicked(1)
                 ELSE Ok(st.chunks, timestamp_of_master_file, 1)

-----------------------------------------------------------------------------
(* region_file.rs: Region::from_bytes_linear_v2 *)

\* 0xc3ff13183cca9d9au64.to_be_bytes()
LINEAR_FILE_HEAD == <<195, 255, 19, 24, 60, 202, 157, 154>>

LINEAR_VERSION == 3

\* the `loop` over the feature descriptors: the read pointer after the
\* terminating zero length, or -1 when bytes[curr_read_pointer] is out of
\* range (the index panics)
RECURSIVE skip_features(_, _)
skip_features(bytes, curr_read_pointer) ==
    IF curr_read_pointer >= Len(bytes) THEN -1
    ELSE LET feature_name_length == bytes[curr_read_pointer + 1] IN
         IF feature_name_length = 0 THEN curr_read_pointer + 1
         ELSE skip_features(bytes, curr_read_pointer + 1 + feature_name_length + 4)

\* one iteration of `for _ in 0..grid_size*grid_size` on the loop state
\* st = [ptr, bucket_sizes, panicked]
bucket_descriptor(bytes, st) ==
    IF st.panicked THEN st
    ELSE IF ~InRange(bytes, st.ptr, st.ptr + 4) THEN [st EXCEPT !.panicked = TRUE]
    ELSE IF ~InRange(bytes, st.ptr + 4, st.ptr + 5) THEN [st EXCEPT !.panicked = TRUE]
    ELSE [ptr          |-> st.ptr + 4 + 1 + 8,
          bucket_sizes |-> Append(st.bucket_sizes, I32FromBe(Slice(bytes, st.ptr, st.ptr + 4))),
          panicked     |-> FALSE]

RECURSIVE bucket_descriptors(_, _, _, _)
bucket_descriptors(bytes, lo, hi, st) ==
    IF hi <= lo THEN st
    ELSE IF hi - lo = 1 THEN bucket_descriptor(bytes, st)
    ELSE LET mid == (lo + hi) \div 2
             left == bucket_descriptors(bytes, lo, mid, st)
         IN  IF left.panicked THEN left ELSE bucket_descriptors(bytes, mid, hi, left)

\* the body of `for ix in 0..bucket_dim { for iz in 0..bucket_dim {..} }` at
\* (ix, iz), on the loop state st = [rp, chunks, panicked, broke]; broke is
\* the ix whose inner loop hit `break` (-1: none), the rest of that inner
\* loop is skipped
chunk_record(decompressed, hdr, x, z, bucket_dim, ix, iz, st) ==
    IF st.panicked \/ st.broke = ix THEN st
    ELSE
    LET chunk_index == (x * bucket_dim + ix) + (z * bucket_dim + iz) * 32 IN
    IF st.rp + 12 > Len(decompressed) THEN [st EXCEPT !.broke = ix]
    ELSE
    LET chunk_size == I32FromBe(Slice(decompressed, st.rp, st.rp + 4))
        chunk_timestamp == I64FromBe(Slice(decompressed, st.rp + 4, st.rp + 12))
        rp == st.rp + 12
    IN  IF chunk_size <= 0 THEN [st EXCEPT !.rp = rp]
        \* (chunk_size - 8) as usize of a negative difference is huge: the
        \* slice below panics
        ELSE IF chunk_size - 8 < 0 THEN [st EXCEPT !.panicked = TRUE]
        ELSE IF ~InRange(decompressed, rp, rp + (chunk_size - 8))
             THEN [st EXCEPT !.panicked = TRUE]
        ELSE
        LET chunk_data == Slice(decompressed, rp, rp + (chunk_size - 8))
            global_x == 32 * hdr.region_x + (chunk_index % 32)
            global_z == 32 * hdr.region_z + (chunk_index \div 32)
        IN  [st EXCEPT !.rp = rp + (chunk_size - 8),
                       !.chunks = Append(st.chunks,
                           new_from_block_pos(global_x, global_z, chunk_timestamp,
                                              parse_tag(chunk_data)))]

\* the iterations lo .. hi-1 of the two nested loops, numbered ix * bucket_dim + iz
RECURSIVE chunk_records(_, _, _, _, _, _, _, _)
chunk_records(decompressed, hdr, x, z, bucket_dim, lo, hi, st) ==
    IF hi <= lo THEN st
    ELSE IF hi - lo = 1
         THEN chunk_record(decompressed, hdr, x, z, bucket_dim,
                           lo \div bucket_dim, lo % bucket_dim, st)
    ELSE LET mid == (lo + hi) \div 2
             left == chunk_records(decompressed, hdr, x, z, bucket_dim, lo, mid, st)
         IN  IF left.panicked THEN left
             ELSE chunk_records(decompressed, hdr, x, z, bucket_dim, mid, hi, left)

\* the body of `for x in 0..grid_size { for z in 0..grid_size {..} }` on the
\* loop state st = [ptr, chunks, panicked, zstd_calls]
bucket(bytes, hdr, bucket_sizes, x, z, st) ==
    IF st.panicked THEN st
    ELSE
    LET index == x * hdr.grid_size + z
        bucket_data_len == IF index + 1 <= Len(bucket_sizes) THEN bucket_sizes[index + 1] ELSE 0
    IN  IF bucket_data_len <= 0 THEN st
        ELSE IF ~InRange(bytes, st.ptr, st.ptr + bucket_data_len)
             THEN [st EXCEPT !.panicked = TRUE]
        ELSE
        LET decoded == zstd_decode_all(Slice(bytes, st.ptr, st.ptr + bucket_data_len))
            bucket_dim == 32 \div hdr.grid_size
        IN  \* .unwrap() of the decoder's Err
            IF ~decoded.ok
            THEN [st EXCEPT !.panicked = TRUE, !.zstd_calls = st.zstd_calls + 1]
            ELSE
            LET rs == chunk_records(decoded.data, hdr, x, z, bucket_dim, 0, bucket_dim * bucket_dim,
                                    [rp |-> 0, chunks |-> st.chunks, panicked |-> FALSE, broke |-> -1])
            IN  [ptr        |-> st.ptr + bucket_data_len,
                 chunks     |-> rs.chunks,
                 panicked   |-> rs.panicked,
                 zstd_calls |-> st.zstd_calls + 1]

\* the iterations lo .. hi-1 of the two nested loops, numbered x * grid_size + z
RECURSIVE buckets(_, _, _, _, _, _)
buckets(bytes, hdr, bucket_sizes, lo, hi, st) ==
    IF hi <= lo THEN st
    ELSE IF hi - lo = 1
         THEN bucket(bytes, hdr, bucket_sizes, lo \div hdr.grid_size, lo % hdr.grid_size, st)
    ELSE LET mid == (lo + hi) \div 2
             left == buckets(bytes, hdr, bucket_sizes, lo, mid, st)
         IN  IF left.panicked THEN left
             ELSE buckets(bytes, hdr, bucket_sizes, mid, hi, left)

\* the checks of the file head and the version: "ok", the ParseError they
\* return, or "panic" (the version byte is read after the head is accepted)
linear_header(bytes) ==
    IF ~InRange(bytes, 0, 8) THEN "panic"
    ELSE IF Slice(bytes, 0, 8) # LINEAR_FILE_HEAD THEN "HeaderError"
    ELSE IF ~InRange(bytes, 8, 9) THEN "panic"
    ELSE IF bytes[9] # LINEAR_VERSION THEN "VersionError"
    ELSE "ok"

from_bytes_linear_v2(bytes) ==
    LET checked == linear_header(bytes) IN
    IF checked = "panic" THEN Panicked(0)
    ELSE IF checked # "ok" THEN Err(checked, 0)
    ELSE IF ~InRange(bytes, 9, 26) THEN Panicked(0)
    ELSE
    LET hdr == [timestamp |-> I64FromBe(Slice(bytes, 9, 17)),
                grid_size |-> bytes[18],
                region_x  |-> I32FromBe(Slice(bytes, 18, 22)),
                region_z  |-> I32FromBe(Slice(bytes, 22, 26))]
        after_features == skip_features(bytes, 26 + 128)
    IN  IF after_features < 0 THEN Panicked(0)
        ELSE
        LET ds == bucket_descriptors(bytes, 0, hdr.grid_size * hdr.grid_size,
                      [ptr |-> after_features, bucket_sizes |-> <<>>, panicked |-> FALSE])
        IN  IF ds.panicked THEN Panicked(0)
            ELSE
            LET bs == buckets(bytes, hdr, ds.bucket_sizes, 0, hdr.grid_size * hdr.grid_size,
                          [ptr |-> ds.ptr, chunks |-> <<>>, panicked |-> FALSE, zstd_calls |-> 0])
            IN  IF bs.panicked THEN Panicked(bs.zstd_calls)
                ELSE Ok(bs.chunks, hdr.timestamp, bs.zstd_calls)

-----------------------------------------------------------------------------
(* Inputs of the harnesses *)

\* how many chunks a Region under test holds at most
MaxChunks == 2

\* how long a chunk payload under test is at most
MaxPayload == 1

\* chunk payloads (tag-tree bytes) of 4 .. 4 + MaxPayload bytes
Payloads == {<<10, 0, 0>> \o [i \in 1..(n + 1) |-> n] : n \in 0..MaxPayload}

\* i64 timestamps: zero, a positive one above 2^32, a negative one
Timestamps == {[hi |-> 0, lo |-> 0], [hi |-> 395, lo |-> 1700000], [hi |-> -1, lo |-> -5]}

\* compression levels accepted by validate_compression_level (0..22)
Levels == {0, 6, 22}

\* i32 coordinates: the corners of a region, negatives and the type's limits
I32Samples == {-2147483647 - 1, -33, -32, -1, 0, 1, 5, 31, 32, 69, 2147483647}

\* coordinates inside one region
RegionCoords == 0..31

\* the coordinates the Regions under test draw their chunks from
ChunkCoords == {0, 1, 31}

\* the (x, z) the Regions under test hold chunks at
ChunkPlaces == {<<0, 0>>, <<1, 0>>, <<0, 1>>, <<31, 31>>}

\* a chunk as a caller builds it from (x, z, timestamp, payload)
ChunkAt(x, z, t, p) == new_from_block_pos(x, z, t, parse_tag(p))

TestChunks ==
    {ChunkAt(xz[1], xz[2], [hi |-> 395, lo |-> 1700000], p) : xz \in ChunkPlaces, p \in Payloads}

\* Regions of 0 .. MaxChunks chunks
Regions ==
    {[chunks |-> cs, timestamp |-> [hi |-> 0, lo |-> 0]] :
        cs \in UNION {[1..n -> TestChunks] : n \in 0..MaxChunks}}

-----------------------------------------------------------------------------
(* State *)

HarnessInit ==
    /\ call = [op |-> "none"]
    /\ ret = <<>>

\* the pipeline before main() runs
PipelineIdle ==
    /\ mode = "none"
    /\ level = 0
    /\ files = <<>>
    /\ status = <<>>
    /\ ext = <<>>
    /\ outputs = <<>>
    /\ stderr = {}
    /\ stdout = {}
    /\ batch = "idle"

InitHarness == HarnessInit /\ PipelineIdle

-----------------------------------------------------------------------------
(* Chunk addressing: the operations of chunk.rs applied to bounded inputs *)

Call_new_from_block_pos ==
    \E x \in I32Samples, z \in I32Samples, t \in Timestamps :
        /\ call.op = "none"
        /\ call' = [op |-> "new_from_block_pos", x |-> x, z |-> z, timestamp |-> t]
        /\ ret' = new_from_block_pos(x, z, t, parse_tag(<<10, 0, 0, 0>>))
        /\ UNCHANGED pipeline

\* the sector indices of two chunks of one region
Call_position_to_sector_index ==
    \E x1 \in RegionCoords, z1 \in RegionCoords, x2 \in ChunkCoords, z2 \in ChunkCoords :
        /\ call.op = "none"
        /\ call' = [op |-> "position_to_sector_index", a |-> <<x1, z1>>, b |-> <<x2, z2>>]
        /\ ret' = <<position_to_sector_index(ChunkAt(x1, z1, [hi |-> 0, lo |-> 0], <<10, 0, 0, 0>>)),
                    position_to_sector_index(ChunkAt(x2, z2, [hi |-> 0, lo |-> 0], <<10, 0, 0, 0>>))>>
        /\ UNCHANGED pipeline

NextAddr == Call_new_from_block_pos \/ Call_position_to_sector_index

SpecAddr == InitHarness /\ [][NextAddr]_vars

-----------------------------------------------------------------------------
(* The Blinear codec applied to bounded inputs *)

Call_to_bytes_blinear ==
    \E region \in Regions, t \in {[hi |-> -1, lo |-> -5]}, l \in Levels :
        /\ call.op = "none"
        /\ call' = [op |-> "to_bytes_blinear", region |-> region, timestamp |-> t,
                    compression_level |-> l]
        /\ ret' = to_bytes_blinear(region, t, l)
        /\ UNCHANGED pipeline

\* from_bytes_blinear(to_bytes_blinear(region, t, level))
Call_round_trip_blinear ==
    \E region \in Regions, t \in {[hi |-> -1, lo |-> -5]}, l \in {6} :
        /\ call.op = "none"
        /\ call' = [op |-> "round_trip_blinear", region |-> region, timestamp |-> t,
                    compression_level |-> l]
        /\ ret' = from_bytes_blinear(to_bytes_blinear(region, t, l))
        /\ UNCHANGED pipeline

NextEncode == Call_to_bytes_blinear \/ Call_round_trip_blinear

SpecEncode == InitHarness /\ [][NextEncode]_vars

-----------------------------------------------------------------------------
(* Builders of input files.  They write the formats as the decoders read    *)
(* them; what a formula expects of a decode is stated from the builder's    *)
(* arguments, which the harness records in `call`.                          *)

Zeros(n) == [i \in 1..n |-> 0]

\* seqs[lo] \o .. \o seqs[hi]
RECURSIVE Flatten(_, _, _)
Flatten(seqs, lo, hi) ==
    IF hi < lo THEN <<>>
    ELSE IF lo = hi THEN seqs[lo]
    ELSE LET mid == (lo + hi) \div 2
         IN  Flatten(seqs, lo, mid) \o Flatten(seqs, mid + 1, hi)

\* one slot of a Blinear body, from its description
BlinearSlotInput(slot) ==
    IF slot.kind = "negative" THEN I32ToBe(slot.len)
    ELSE IF slot.kind = "record"
         THEN I32ToBe(16 + Len(slot.payload)) \o I32ToBe(Len(slot.payload))
                  \o I64ToBe(slot.timestamp) \o I32ToBe(slot.checksum) \o slot.payload
    ELSE I32ToBe(0)

\* a Blinear v2 file whose slots are empty but for the described ones
BlinearInput(timestamp, compression_level, slots) ==
    LET body == Flatten([s \in 1..1024 |->
                            IF (s - 1) \in DOMAIN slots THEN BlinearSlotInput(slots[s - 1])
                            ELSE I32ToBe(0)], 1, 1024)
    IN  BLINEAR_FILE_HEAD \o <<BLINEAR_VERSION>> \o I64ToBe(timestamp)
            \o <<compression_level>> \o zstd_encode_all(body, compression_level)

\* the records of bucket (bx, bz) of a Linear v2 file: one per local offset,
\* in the order ix * bucket_dim + iz; populated maps <<bx, bz, ix, iz>> to
\* [timestamp, payload]
LinearBucketInput(G, bx, bz, populated) ==
    LET dim == 32 \div G
        rec(k) == LET at == <<bx, bz, k \div dim, k % dim>> IN
                  IF at \in DOMAIN populated
                  THEN I32ToBe(8 + Len(populated[at].payload))
                           \o I64ToBe(populated[at].timestamp) \o populated[at].payload
                  ELSE I32ToBe(0) \o I64ToBe([hi |-> 0, lo |-> 0])
    IN  IF \E at \in DOMAIN populated : at[1] = bx /\ at[2] = bz
        THEN zstd_encode_all(Flatten([k \in 1..(dim * dim) |-> rec(k - 1)], 1, dim * dim), 6)
        ELSE <<>>

\* a Linear v2 file of grid size G for region (region_x, region_z)
LinearInput(G, region_x, region_z, timestamp, features, populated) ==
    LET bkt == [k \in 1..(G * G) |-> LinearBucketInput(G, (k - 1) \div G, (k - 1) % G, populated)]
        descriptors == Flatten([k \in 1..(G * G) |-> I32ToBe(Len(bkt[k])) \o <<6>> \o Zeros(8)],
                               1, G * G)
    IN  LINEAR_FILE_HEAD \o <<LINEAR_VERSION>> \o I64ToBe(timestamp) \o <<G>>
            \o I32ToBe(region_x) \o I32ToBe(region_z) \o Zeros(128)
            \o features \o <<0>> \o descriptors \o Flatten(bkt, 1, G * G)

-----------------------------------------------------------------------------
(* The Blinear decoder applied to bounded inputs *)

\* the slots the inputs populate
SpecialSlots == {0, 33, 1023}

SlotInputs ==
    {[kind |-> "negative", len |-> -1], [kind |-> "negative", len |-> -2147483647 - 1]}
    \cup UNION {{[kind |-> "record", timestamp |-> [hi |-> 395, lo |-> 1700000],
                   payload |-> p, checksum |-> c] : c \in {0, xxhash32(HASH_SEED, p)}} :
                 p \in Payloads}

\* descriptions of at most MaxChunks slots
SlotMaps ==
    UNION {[S -> SlotInputs] : S \in {T \in SUBSET SpecialSlots : Cardinality(T) <= MaxChunks}}

Call_from_bytes_blinear ==
    \E slots \in SlotMaps, t \in Timestamps :
        /\ call.op = "none"
        /\ call' = [op |-> "from_bytes_blinear", bytes |-> BlinearInput(t, 6, slots),
                    slots |-> slots, timestamp |-> t]
        /\ ret' = from_bytes_blinear(BlinearInput(t, 6, slots))
        /\ UNCHANGED pipeline

NextDecode == Call_from_bytes_blinear

SpecDecode == InitHarness /\ [][NextDecode]_vars

-----------------------------------------------------------------------------
(* The Linear v2 decoder applied to bounded inputs *)

\* grid sizes: the divisors of 32
LinearGrids == {1, 2, 4, 8, 16, 32}

\* (region_x, region_z)
RegionPlaces == {<<2, -1>>, <<0, 0>>, <<-3, 5>>}

\* the <<bx, bz, ix, iz>> the inputs populate, for grid size G
RecordPlaces(G) ==
    LET dim == 32 \div G
        lim(n, m) == IF n < m THEN n ELSE m - 1
    IN  {<<bx, bz, ix, iz>> : bx \in {0, G - 1}, bz \in {0, lim(1, G)},
                              ix \in {0, lim(5, dim)}, iz \in {0, dim - 1}}

Call_from_bytes_linear_v2 ==
    \E G \in LinearGrids, r \in RegionPlaces, t \in {[hi |-> -1, lo |-> -5]},
       features \in {<<>>, <<3, 97, 98, 99, 0, 0, 0, 1>>} :
      \E S \in {T \in SUBSET RecordPlaces(G) : Cardinality(T) \in 1..MaxChunks} :
        LET populated == [at \in S |-> [timestamp |-> [hi |-> 395, lo |-> 1700000 + at[3]],
                                        payload |-> <<10, 0, 0, at[4]>>]]
            bytes == LinearInput(G, r[1], r[2], t, features, populated)
        IN  /\ call.op = "none"
            /\ call' = [op |-> "from_bytes_linear_v2", bytes |-> bytes, grid_size |-> G,
                        region_x |-> r[1], region_z |-> r[2], timestamp |-> t,
                        populated |-> populated]
            /\ ret' = from_bytes_linear_v2(bytes)
            /\ UNCHANGED pipeline

NextLinear == Call_from_bytes_linear_v2

SpecLinear == InitHarness /\ [][NextLinear]_vars

-----------------------------------------------------------------------------
(* The header checks of both decoders applied to bounded inputs *)

\* how many bytes follow the version byte in the short inputs
MaxRest == 3

\* a well-formed file of each format
SampleBlinear ==
    BlinearInput([hi |-> 395, lo |-> 1700000], 6,
                 [s \in {0} |-> [kind |-> "record", timestamp |-> [hi |-> 0, lo |-> 7],
                                 payload |-> <<10, 0, 0, 0>>, checksum |-> 0]])

SampleLinear ==
    LinearInput(8, 2, -1, [hi |-> 395, lo |-> 1700000], <<3, 97, 98, 99, 0, 0, 0, 1>>,
                [at \in {<<7, 7, 1, 2>>} |-> [timestamp |-> [hi |-> 0, lo |-> 7],
                                              payload |-> <<10, 0, 0, 0>>]])

\* the file head `head`, as it is and with one byte changed, and the other
\* format's file head
Heads(head, other) ==
    {head, other}
    \cup {[head EXCEPT ![i] = 0] : i \in 1..8}
    \cup {[head EXCEPT ![i] = (head[i] + 1) % 256] : i \in 1..8}

VersionBytes == {0, 2, 3, 255}

\* what follows the version byte: nothing, a few bytes, or the rest of a
\* well-formed file
Rests(sample) ==
    {[i \in 1..n |-> 40 + i] : n \in 0..MaxRest} \cup {SubSeq(sample, 10, Len(sample))}

\* a buffer of a file head, a version byte and a rest, or of the head alone
HeaderInputs(head, other, sample) ==
    {h \o <<v>> \o r : h \in Heads(head, other), v \in VersionBytes, r \in Rests(sample)}
    \cup Heads(head, other)

Call_header_blinear ==
    \E bytes \in HeaderInputs(BLINEAR_FILE_HEAD, LINEAR_FILE_HEAD, SampleBlinear) :
        /\ call.op = "none"
        /\ call' = [op |-> "header_blinear", bytes |-> bytes]
        /\ ret' = from_bytes_blinear(bytes)
        /\ UNCHANGED pipeline

Call_header_linear_v2 ==
    \E bytes \in HeaderInputs(LINEAR_FILE_HEAD, BLINEAR_FILE_HEAD, SampleLinear) :
        /\ call.op = "none"
        /\ call' = [op |-> "header_linear_v2", bytes |-> bytes]
        /\ ret' = from_bytes_linear_v2(bytes)
        /\ UNCHANGED pipeline

NextHeader == Call_header_blinear \/ Call_header_linear_v2

SpecHeader == InitHarness /\ [][NextHeader]_vars

-----------------------------------------------------------------------------
(* Both decoders applied to truncated and corrupted files *)

\* the lengths at which a file of length n is cut: every length in the
\* header and the first records, every 64th after, and the last 16
CutLengths(n) == {k \in 0..(n - 1) : k < 256 \/ k % 64 = 0 \/ k >= n - 16}

\* bytes with the byte at 0-based offset `at` replaced
Poke(bytes, at, v) == [bytes EXCEPT ![at + 1] = v]

\* the malformed variants of SampleBlinear: cut short, a body that is no zstd
\* frame, a slot length that claims more bytes than remain
MalformedBlinear ==
    {[how |-> "truncated", bytes |-> SubSeq(SampleBlinear, 1, k)] :
        k \in CutLengths(Len(SampleBlinear))}
    \cup {[how |-> "corrupt zstd", bytes |-> Poke(SampleBlinear, 18, 0)]}
    \cup {[how |-> "length overrun",
           bytes |-> BlinearInput([hi |-> 0, lo |-> 0], 6,
                        [s \in {1023} |-> [kind |-> "negative", len |-> n]])] : n \in {1, 16, 5000}}

\* SampleLinear's only bucket that holds data is the last one, (7, 7): its
\* descriptor is the last 13 bytes before the bucket data
SampleLinearData == LinearBucketInput(8, 7, 7, [at \in {<<7, 7, 1, 2>>} |->
                        [timestamp |-> [hi |-> 0, lo |-> 7], payload |-> <<10, 0, 0, 0>>]])

MalformedLinear ==
    LET data_at == Len(SampleLinear) - Len(SampleLinearData) IN
    {[how |-> "truncated", bytes |-> SubSeq(SampleLinear, 1, k)] :
        k \in CutLengths(Len(SampleLinear))}
    \cup {[how |-> "corrupt zstd", bytes |-> Poke(SampleLinear, data_at, 0)]}
    \cup {[how |-> "length overrun",
           bytes |-> SubSeq(SampleLinear, 1, data_at - 13)
                        \o I32ToBe(Len(SampleLinearData) + n)
                        \o SubSeq(SampleLinear, data_at - 13 + 5, Len(SampleLinear))] :
          n \in {1, 5000}}

Call_malformed_blinear ==
    \E input \in MalformedBlinear :
        /\ call.op = "none"
        /\ call' = [op |-> "malformed_blinear", how |-> input.how, bytes |-> input.bytes]
        /\ ret' = from_bytes_blinear(input.bytes)
        /\ UNCHANGED pipeline

Call_malformed_linear_v2 ==
    \E input \in MalformedLinear :
        /\ call.op = "none"
        /\ call' = [op |-> "malformed_linear_v2", how |-> input.how, bytes |-> input.bytes]
        /\ ret' = from_bytes_linear_v2(input.bytes)
        /\ UNCHANGED pipeline

NextMalformed == Call_malformed_blinear \/ Call_malformed_linear_v2

SpecMalformed == InitHarness /\ [][NextMalformed]_vars

-----------------------------------------------------------------------------
(* main.rs: the conversion pipeline *)

Modes == {"LinearMca", "McaLinear", "McaBlinear", "BlinearMca", "BlinearLinear", "LinearBlinear"}

\* the extension, or "panic" where the match arm is todo!()
output_file_extension_by_mode(m) ==
    IF m = "McaBlinear" THEN ".blinear"
    ELSE IF m = "LinearBlinear" THEN "blinear"
    ELSE "panic"

\* what calling the closure get_input_call(mode, data) returns
get_input_call(m, data) ==
    IF m \in {"LinearMca", "LinearBlinear"} THEN from_bytes_linear_v2(data)
    ELSE IF m \in {"BlinearLinear", "BlinearMca"} THEN from_bytes_blinear(data)
    ELSE Panicked(0)

\* what calling the closure get_output_call(mode, region, timestamp,
\* compression_level) returns: the bytes, or "panic"
get_output_call(m, region, timestamp, compression_level) ==
    IF m \in {"LinearBlinear", "McaBlinear"}
    THEN to_bytes_blinear(region, timestamp, compression_level)
    ELSE "panic"

\* do_converse_single on a file's contents (`read(&input)?` fails on an
\* unreadable entry); new_timestamp is Local::now().  The result is
\* Ok with the bytes written to `output`, Err, or a panic.
do_converse_single(contents, m, compression_level, new_timestamp) ==
    IF ~contents.readable THEN [kind |-> "Err", err |-> "io::Error", bytes |-> <<>>]
    ELSE
    LET region_result == get_input_call(m, contents.bytes) IN
    IF region_result.kind = "panic" THEN [kind |-> "panic", err |-> "none", bytes |-> <<>>]
    ELSE IF region_result.kind = "Err"
         THEN [kind |-> "Err", err |-> region_result.err, bytes |-> <<>>]
    ELSE
    LET converted_bytes == get_output_call(m, region_result.region, new_timestamp, compression_level)
    IN  IF converted_bytes = "panic" THEN [kind |-> "panic", err |-> "none", bytes |-> <<>>]
        ELSE [kind |-> "Ok", err |-> "none", bytes |-> converted_bytes]

\* how many files the scanned folder holds
NumFiles == 3

\* the files a region folder may hold
FileKinds == {"linear", "bad magic", "truncated", "blinear", "unreadable"}

FileContents(kind) ==
    [readable |-> kind # "unreadable",
     bytes    |-> CASE kind = "linear"      -> SampleLinear
                    [] kind = "bad magic"   -> Poke(SampleLinear, 0, 0)
                    [] kind = "truncated"   -> SubSeq(SampleLinear, 1, Len(SampleLinear) - 1)
                    [] kind = "blinear"     -> SampleBlinear
                    [] OTHER                -> <<>>]

\* the values Local::now().timestamp_millis() takes
Clock == {[hi |-> 395, lo |-> 1700000], [hi |-> 395, lo |-> 1700001]}

Finished == {"converted", "reported", "panicked", "skipped"}

\* main() up to the par_iter: the arguments are parsed, the folders exist
\* and scanned holds the files of the region folder
PipelineInit ==
    /\ mode \in Modes
    /\ level \in {6}
    /\ files \in [1..NumFiles -> FileKinds]
    /\ status = [f \in 1..NumFiles |-> "queued"]
    /\ ext = [f \in 1..NumFiles |-> ""]
    /\ outputs = [f \in 1..NumFiles |-> [written |-> FALSE, bytes |-> <<>>]]
    /\ stderr = {}
    /\ stdout = {}
    /\ batch = "running"

Init == HarnessInit /\ PipelineInit

\* the closure of for_each on file f, up to output_pathbuf
Name(f) ==
    /\ batch = "running"
    /\ status[f] = "queued"
    /\ LET extension == output_file_extension_by_mode(mode) IN
       IF extension = "panic"
       THEN /\ status' = [status EXCEPT ![f] = "panicked"]
            /\ ext' = ext
       ELSE /\ status' = [status EXCEPT ![f] = "named"]
            /\ ext' = [ext EXCEPT ![f] = extension]
    /\ UNCHANGED <<harness, mode, level, files, outputs, stderr, stdout, batch>>

\* the closure of for_each on file f, from do_converse_single on
Convert(f) ==
    /\ batch = "running"
    /\ status[f] = "named"
    /\ \E now \in Clock :
         LET convert_result == do_converse_single(FileContents(files[f]), mode, level, now) IN
         /\ status' = [status EXCEPT ![f] =
                           IF convert_result.kind = "Ok" THEN "converted"
                           ELSE IF convert_result.kind = "Err" THEN "reported"
                           ELSE "panicked"]
         /\ outputs' = IF convert_result.kind = "Ok"
                       THEN [outputs EXCEPT ![f] = [written |-> TRUE, bytes |-> convert_result.bytes]]
                       ELSE outputs
         /\ stderr' = IF convert_result.kind = "Err"
                      THEN stderr \cup {[path |-> f, error |-> convert_result.err]}
                      ELSE stderr
         /\ stdout' = IF convert_result.kind = "Ok" THEN stdout \cup {f} ELSE stdout
    /\ UNCHANGED <<harness, mode, level, files, ext, batch>>

\* a panic unwinds the job it happens in.  par_iter splits the files into
\* jobs of one or more files each (how many depends on the number of worker
\* threads); the files the panicking job had not come to are never handed
\* to the closure, the other jobs still run
Skip(f) ==
    /\ batch = "running"
    /\ status[f] = "queued"
    /\ \E g \in DOMAIN status : status[g] = "panicked"
    /\ status' = [status EXCEPT ![f] = "skipped"]
    /\ UNCHANGED <<harness, mode, level, files, ext, outputs, stderr, stdout, batch>>

\* for_each ends: it returns, or resumes the panic of a job in main()
Join ==
    /\ batch = "running"
    /\ \A f \in DOMAIN status : status[f] \in Finished
    /\ batch' = IF \E f \in DOMAIN status : status[f] = "panicked" THEN "panicked" ELSE "completed"
    /\ UNCHANGED <<harness, mode, level, files, status, ext, outputs, stderr, stdout>>

Next ==
    \/ \E f \in 1..NumFiles : Name(f)
    \/ \E f \in 1..NumFiles : Convert(f)
    \/ \E f \in 1..NumFiles : Skip(f)
    \/ Join

Spec == Init /\ [][Next]_vars

-----------------------------------------------------------------------------
(* Properties *)

\* the canonical sector index (x & 31) | ((z & 31) << 5)
CanonicalSectorIndex(x, z) == Or32(And32(x, 31), And32(z, 31) * 32)

\* the (x, z, timestamp, payload) of the chunks of a list, through the accessors
ChunkTuples(chunks) ==
    {<<Chunk_x(chunks[i]), Chunk_z(chunks[i]), chunks[i].timestamp, to_raw_bytes(chunks[i])>> :
        i \in 1..Len(chunks)}

DistinctPlaces(chunks) ==
    \A i, j \in 1..Len(chunks) :
        i # j => <<Chunk_x(chunks[i]), Chunk_z(chunks[i])>> # <<Chunk_x(chunks[j]), Chunk_z(chunks[j])>>

\* the elements of a finite set of integers in ascending order
Ascending(S) == [i \in 1..Cardinality(S) |-> CHOOSE s \in S : Cardinality({t \in S : t < s}) = i - 1]

\* C1: decoding the Blinear encoding of a Region whose chunks lie at pairwise
\* distinct (x, z) in [0,31]x[0,31] succeeds and yields the same set of
\* (x, z, timestamp, payload): no chunk lost, added or moved.
C1_BlinearRoundTrip ==
    (call.op = "round_trip_blinear" /\ DistinctPlaces(call.region.chunks)) =>
        /\ ret.kind = "Ok"
        /\ ChunkTuples(ret.region.chunks) = ChunkTuples(call.region.chunks)

\* C5: for chunks built from (x, z) in [0,31]x[0,31], position_to_sector_index
\* lies in 0..1023 and two distinct (x, z) never get the same index.
C5_SectorIndexBijection ==
    call.op = "position_to_sector_index" =>
        /\ ret[1] \in 0..1023
        /\ ret[2] \in 0..1023
        /\ (call.a # call.b => ret[1] # ret[2])

\* C6: a Linear v2 file of grid size G (a divisor of 32) for region
\* (region_x, region_z) decodes each populated record at local offset (ix, iz)
\* of bucket (bx, bz) to exactly one chunk with
\* x() = region_x*32 + bx*(32/G) + ix and z() = region_z*32 + bz*(32/G) + iz,
\* and its empty records to no chunk.
C6_LinearCoordinates ==
    call.op = "from_bytes_linear_v2" =>
        LET dim == 32 \div call.grid_size
            chunks == ret.region.chunks
        IN  /\ ret.kind = "Ok"
            /\ Len(chunks) = Cardinality(DOMAIN call.populated)
            /\ \A at \in DOMAIN call.populated :
                  Cardinality({i \in 1..Len(chunks) :
                      /\ Chunk_x(chunks[i]) = call.region_x * 32 + at[1] * dim + at[3]
                      /\ Chunk_z(chunks[i]) = call.region_z * 32 + at[2] * dim + at[4]
                      /\ chunks[i].timestamp = call.populated[at].timestamp
                      /\ to_raw_bytes(chunks[i]) = call.populated[at].payload}) = 1

\* the chunks C8 expects of a Blinear body: one per populated slot s, in
\* ascending order, at x = s & 31, z = (s >> 5) & 31
C8ExpectedChunks(slots) ==
    LET order == Ascending({s \in DOMAIN slots : slots[s].kind = "record"})
    IN  [i \in 1..Len(order) |->
            ChunkAt(order[i] % 32, (order[i] \div 32) % 32,
                    slots[order[i]].timestamp, slots[order[i]].payload)]

\* C8: from_bytes_blinear reads 1024 slots in ascending order; a slot whose
\* length is <= 0 (zero or negative) takes 4 bytes and gives no chunk, a slot
\* s of length L > 0 takes 4 + L bytes and gives one chunk at x = s & 31,
\* z = (s >> 5) & 31 with the record's timestamp and payload, whatever the
\* stored checksum; the Region's timestamp is the header's.
C8_BlinearSlotWalk ==
    call.op = "from_bytes_blinear" =>
        /\ ret.kind = "Ok"
        /\ ret.region.chunks = C8ExpectedChunks(call.slots)
        /\ ret.region.timestamp = call.timestamp

\* the entry C9 expects in slot s: the record of the first chunk whose
\* canonical sector index is s, or the zero marker
C9ExpectedSlot(chunks, s) ==
    LET hits == {i \in 1..Len(chunks) :
                    CanonicalSectorIndex(Chunk_x(chunks[i]), Chunk_z(chunks[i])) = s}
    IN  IF hits = {} THEN <<0, 0, 0, 0>>
        ELSE LET c == chunks[Ascending(hits)[1]]
                 payload == to_raw_bytes(c)
             IN  I32ToBe(16 + Len(payload)) \o I32ToBe(Len(payload)) \o I64ToBe(c.timestamp)
                     \o I32ToBe(xxhash32(HASH_SEED, payload)) \o payload

\* C9: the uncompressed body written by to_bytes_blinear is 1024 entries in
\* ascending slot order; slot s holds the record (total length, payload
\* length, timestamp, checksum, payload) of the first chunk whose canonical
\* sector index (x & 31) | ((z & 31) << 5) is s, and a 4-byte zero otherwise.
C9_BlinearBodyLayout ==
    call.op = "to_bytes_blinear" =>
        LET body == zstd_decode_all(SubSeq(ret, 19, Len(ret))) IN
        /\ body.ok
        /\ body.data = Flatten([s \in 1..1024 |-> C9ExpectedSlot(call.region.chunks, s - 1)], 1, 1024)

\* C10: new_from_block_pos(x, z, ..) keeps x in the high and z in the low 32
\* bits of the position, and the accessors give the coordinates back:
\* x() = x and z() = z, for all i32 x and z.
C10_PackUnpackRoundTrip ==
    call.op = "new_from_block_pos" =>
        /\ ret.position = [hi |-> call.x, lo |-> call.z]
        /\ Chunk_x(ret) = call.x
        /\ Chunk_z(ret) = call.z

\* C4: given a buffer that holds the file head and the version byte, each
\* decoder returns HeaderError when the first 8 bytes are not its file head,
\* whatever follows, and VersionError when they are and the version byte is
\* not its version (2 for Blinear, 3 for Linear v2); in both cases nothing
\* was decompressed and no Region comes back.
C4_HeaderValidation ==
    (call.op \in {"header_blinear", "header_linear_v2"} /\ Len(call.bytes) >= 9) =>
        LET head == IF call.op = "header_blinear" THEN BLINEAR_FILE_HEAD ELSE LINEAR_FILE_HEAD
            version == IF call.op = "header_blinear" THEN 2 ELSE 3
            failed(err) == /\ ret.kind = "Err"
                           /\ ret.err = err
                           /\ ret.zstd_calls = 0
                           /\ ret.region = NoRegion
        IN  /\ SubSeq(call.bytes, 1, 8) # head => failed("HeaderError")
            /\ (SubSeq(call.bytes, 1, 8) = head /\ call.bytes[9] # version)
                   => failed("VersionError")

\* C4's case: a well-formed Blinear file but for its version byte
C4_Witness ==
    /\ call.op = "header_blinear"
    /\ call.bytes = Poke(SampleBlinear, 8, 3)
    /\ ret.err = "VersionError"

\* C7: a truncated file, a file whose length fields claim more bytes than
\* remain and a file whose compressed data does not decompress all make the
\* decoder return an error value (BufferUnderrun or ReadError).
C7_MalformedIsErrorValue ==
    call.op \in {"malformed_blinear", "malformed_linear_v2"} =>
        /\ ret.kind = "Err"
        /\ ret.err \in {"BufferUnderrun", "ReadError"}

\* the files of the batch that decode
Valid(f) == files[f] = "linear"

\* C2: in a directory conversion (Linear to Blinear, the implemented
\* pairing), under any interleaving of the workers, the batch runs to
\* completion and every file ends converted or reported: a file that does
\* not decode is reported with its path and writes no output, every valid
\* file is converted and written, and what is written decodes.
C2_FailureIsolation ==
    (mode = "LinearBlinear" /\ batch \in {"completed", "panicked"}) =>
        /\ batch = "completed"
        /\ \A f \in DOMAIN files :
              IF Valid(f)
              THEN /\ status[f] = "converted"
                   /\ outputs[f].written
                   /\ from_bytes_blinear(outputs[f].bytes).kind = "Ok"
              ELSE /\ status[f] = "reported"
                   /\ \E line \in stderr : line.path = f
                   /\ ~outputs[f].written

\* C3: in every mode other than Linear to Blinear no thread ever panics and
\* no output is ever written, and when the batch is over every file has been
\* reported with the error UnsupportedConversion.
C3_UnsupportedIsTypedError ==
    mode \in Modes \ {"LinearBlinear"} =>
        /\ batch # "panicked"
        /\ \A f \in DOMAIN files :
              /\ status[f] # "panicked"
              /\ ~outputs[f].written
              /\ (batch = "completed" =>
                     [path |-> f, error |-> "UnsupportedConversion"] \in stderr)

=============================================================================
